---------------------------- MODULE Spec2Model ----------------------------
(***************************************************************************)
(* Model of the Nextcloud CalDAV event formatter (src/main.py).            *)
(*                                                                         *)
(* The client lists a calendar collection (PROPFIND), then for every       *)
(* listed object GETs it, applies the title rules to every VEVENT and      *)
(* PUTs the result back under an If-Match precondition, with one re-GET /  *)
(* re-PUT after a failed PUT.  The server and a second client that edits   *)
(* objects at any moment are the environment.                              *)
(*                                                                         *)
(* Two helpers of the other scripts are modelled on their own:             *)
(* fetch_all_events (src/heurigen-extraction.py) and fetch_json            *)
(* (src/waste_fetch_json.py).                                              *)
(***************************************************************************)
EXTENDS Integers, Sequences, FiniteSets, TLC

(* ----------------------------- bounds ---------------------------------- *)
\* objects in the calendar collection
MaxObjects == 1
\* writes of the other client during one run
MaxEdits == 1
\* rules in a rule list given to the rule engine on its own
MaxRules == 2
\* successive calls of the rule engine on one VEVENT
MaxCalls == 2
\* d:response elements in a PROPFIND answer given to propfind_calendar on its own
MaxEntries == 2

(* ------------------------- values of the model ------------------------- *)
\* Python's None, the result of dict.get for a missing key
None == "None"

\* the double quote character
DQ == "\""

\* A text is a sequence of tokens.  A token is a word, a quote character or
\* a control-field fragment such as "STATUS:CONFIRMED".
RECURSIVE LStrip(_, _)
LStrip(s, c) == IF s # <<>> /\ Head(s) = c THEN LStrip(Tail(s), c) ELSE s

RECURSIVE RStrip(_, _)
RStrip(s, c) ==
    IF s # <<>> /\ s[Len(s)] = c THEN RStrip(SubSeq(s, 1, Len(s) - 1), c) ELSE s

\* str.strip(c): every leading and every trailing c is removed
Strip(s, c) == RStrip(LStrip(s, c), c)

(* ------------------------------ the rules ------------------------------ *)
\* A pattern "^lit$" is [lit, anchorStart, anchorEnd]; an unanchored side
\* lets the literal float, as re.search does.
Pat(lit) == [lit |-> lit, anchorStart |-> TRUE, anchorEnd |-> TRUE]

RULES ==
    << [pattern |-> Pat(<<"T8">>), color |-> "khaki", make_free |-> TRUE],
       [pattern |-> Pat(<<"T7">>), color |-> "khaki", make_free |-> TRUE],
       [pattern |-> Pat(<<"T6">>), color |-> "khaki", make_free |-> TRUE],
       [pattern |-> Pat(<<"T5">>), color |-> "khaki", make_free |-> TRUE],
       [pattern |-> Pat(<<"N">>), color |-> "khaki", make_free |-> TRUE],
       [pattern |-> Pat(<<"Teambesprechung">>), color |-> "khaki", make_free |-> TRUE] >>

\* re.I: tokens are compared by their upper-case form
Upper(t) ==
    CASE t = "t8" -> "T8"
      [] t = "n" -> "N"
      [] t = "Teambesprechung" -> "TEAMBESPRECHUNG"
      [] t = "free" -> "FREE"
      [] t = "busy" -> "BUSY"
      [] t = "opaque" -> "OPAQUE"
      [] t = "transparent" -> "TRANSPARENT"
      [] OTHER -> t

UpperSeq(s) == [i \in 1..Len(s) |-> Upper(s[i])]

\* the field names of the first re.sub of normalize_summary, each followed
\* by one of : ; = and the rest of the text
ControlTokens == {"TRANSP:", "X-MICROSOFT-CDO-BUSYSTATUS:", "STATUS:", "SEQUENCE:",
                  "LOCATION:", "CATEGORIES:", "CLASS:", "PRIORITY:"}

StatusWords == {"TRANSPARENT", "OPAQUE", "BUSY", "FREE"}

\* first re.sub: everything from the first control fragment on is dropped
CutControl(text) ==
    LET hits == {i \in 1..Len(text) : Upper(text[i]) \in ControlTokens}
    IN  IF hits = {} THEN text
        ELSE LET first == CHOOSE i \in hits : \A j \in hits : i <= j
             IN  SubSeq(text, 1, first - 1)

\* second re.sub: one trailing status word is dropped
CutStatus(text) ==
    IF text # <<>> /\ Upper(text[Len(text)]) \in StatusWords
    THEN SubSeq(text, 1, Len(text) - 1)
    ELSE text

normalize_summary(text) == CutStatus(CutControl(text))

\* re.search(pattern, title, flags=re.I)
Matches(p, title) ==
    LET n == Len(p.lit)
        u == UpperSeq(title)
    IN  \E i \in 1..(Len(title) - n + 1) :
            /\ SubSeq(u, i, i + n - 1) = UpperSeq(p.lit)
            /\ p.anchorStart => i = 1
            /\ p.anchorEnd => i + n - 1 = Len(title)

\* dict.get / dict item assignment on a component
Get(v, k) == IF k \in DOMAIN v THEN v[k] ELSE None

Put(v, k, x) == [f \in DOMAIN v \cup {k} |-> IF f = k THEN x ELSE v[f]]

\* ApplyRule that sets the transparency and leaves the colour alone
ApplyRule_TranspOnly(rule, vevent) ==
    LET desired_t == IF rule.make_free THEN "TRANSPARENT" ELSE "OPAQUE"
        ch_t == Get(vevent, "TRANSP") # desired_t
        v1 == IF ch_t THEN Put(vevent, "TRANSP", desired_t) ELSE vevent
    IN  [matched |-> TRUE, changed |-> ch_t, vevent |-> v1]

\* ApplyRule that writes the rule's colour without looking at the one present
ApplyRule_ColorAlwaysWritten(rule, vevent) ==
    LET desired_t == IF rule.make_free THEN "TRANSPARENT" ELSE "OPAQUE"
        ch_t == Get(vevent, "TRANSP") # desired_t
        v1 == IF ch_t THEN Put(vevent, "TRANSP", desired_t) ELSE vevent
        ch_c == rule.color # ""
        v2 == IF ch_c THEN Put(v1, "COLOR", rule.color) ELSE v1
    IN  [matched |-> TRUE, changed |-> ch_t \/ ch_c, vevent |-> v2]

\* ApplyRule without the test for an empty colour: "" is written like any other
ApplyRule_EmptyColorWritten(rule, vevent) ==
    LET desired_t == IF rule.make_free THEN "TRANSPARENT" ELSE "OPAQUE"
        ch_t == Get(vevent, "TRANSP") # desired_t
        v1 == IF ch_t THEN Put(vevent, "TRANSP", desired_t) ELSE vevent
        ch_c == Get(v1, "COLOR") # rule.color
        v2 == IF ch_c THEN Put(v1, "COLOR", rule.color) ELSE v1
    IN  [matched |-> TRUE, changed |-> ch_t \/ ch_c, vevent |-> v2]

\* ApplyRule that reports a change whenever a rule matched
ApplyRule_AlwaysChanged(rule, vevent) ==
    LET desired_t == IF rule.make_free THEN "TRANSPARENT" ELSE "OPAQUE"
        v1 == Put(vevent, "TRANSP", desired_t)
        v2 == IF rule.color # "" THEN Put(v1, "COLOR", rule.color) ELSE v1
    IN  [matched |-> TRUE, changed |-> TRUE, vevent |-> v2]

\* the body of the rule loop for the rule that matched
ApplyRule(rule, vevent) ==
    LET desired_t == IF rule.make_free THEN "TRANSPARENT" ELSE "OPAQUE"
        ch_t == Get(vevent, "TRANSP") # desired_t
        v1 == IF ch_t THEN Put(vevent, "TRANSP", desired_t) ELSE vevent
        ch_c == rule.color # "" /\ Get(v1, "COLOR") # rule.color
        v2 == IF ch_c THEN Put(v1, "COLOR", rule.color) ELSE v1
    IN  [matched |-> TRUE, changed |-> ch_t \/ ch_c, vevent |-> v2]

\* FirstMatch without the break: the last matching rule is the one applied
FirstMatch_LastWins(rules, title) ==
    LET hits == {i \in 1..Len(rules) : Matches(rules[i].pattern, title)}
    IN  IF hits = {} THEN 0 ELSE CHOOSE i \in hits : \A j \in hits : i >= j

\* index of the first rule whose pattern matches the title, 0 if none
FirstMatch(rules, title) ==
    LET hits == {i \in 1..Len(rules) : Matches(rules[i].pattern, title)}
    IN  IF hits = {} THEN 0 ELSE CHOOSE i \in hits : \A j \in hits : i <= j

\* ApplyRules that stores the title it matched on back into SUMMARY
ApplyRules_StoreTitle(rules, vevent, normalize) ==
    IF "SUMMARY" \notin DOMAIN vevent
    THEN [matched |-> FALSE, changed |-> FALSE, vevent |-> vevent]
    ELSE LET title == IF normalize THEN normalize_summary(vevent["SUMMARY"])
                      ELSE vevent["SUMMARY"]
             k == FirstMatch(rules, title)
         IN  IF k = 0
             THEN [matched |-> FALSE, changed |-> FALSE, vevent |-> vevent]
             ELSE ApplyRule(rules[k], Put(vevent, "SUMMARY", title))

\* ApplyRules that marks a VEVENT no rule matches as busy
ApplyRules_ResetUnmatched(rules, vevent, normalize) ==
    IF "SUMMARY" \notin DOMAIN vevent
    THEN [matched |-> FALSE, changed |-> FALSE, vevent |-> vevent]
    ELSE LET title == IF normalize THEN normalize_summary(vevent["SUMMARY"])
                      ELSE vevent["SUMMARY"]
             k == FirstMatch(rules, title)
         IN  IF k = 0
             THEN [matched |-> FALSE, changed |-> Get(vevent, "TRANSP") # "OPAQUE",
                   vevent |-> Put(vevent, "TRANSP", "OPAQUE")]
             ELSE ApplyRule(rules[k], vevent)

\* the rule loop of apply_rules_to_event over a rule list: SUMMARY missing,
\* no rule matches, or the first matching rule is applied and the loop breaks
ApplyRules(rules, vevent, normalize) ==
    IF "SUMMARY" \notin DOMAIN vevent
    THEN [matched |-> FALSE, changed |-> FALSE, vevent |-> vevent]
    ELSE LET title == IF normalize THEN normalize_summary(vevent["SUMMARY"])
                      ELSE vevent["SUMMARY"]
             k == FirstMatch(rules, title)
         IN  IF k = 0
             THEN [matched |-> FALSE, changed |-> FALSE, vevent |-> vevent]
             ELSE ApplyRule(rules[k], vevent)

apply_rules_to_event(vevent, c) == ApplyRules(RULES, vevent, c.normalize_summary)


(* ------------------------------ entity tags ---------------------------- *)
\* the ETag the server issues for version v of an object, as header text
StrongTag(v) == <<DQ, ToString(v), DQ>>

WeakTag(v) == <<"W/", DQ, ToString(v), DQ>>

\* header text by kind; a response without the header reads as ""
TagKinds == {"none", "strong", "weak"}

TagText(kind, v) ==
    CASE kind = "strong" -> StrongTag(v)
      [] kind = "weak" -> WeakTag(v)
      [] OTHER -> <<>>

\* the If-Match header save_ics builds
IfMatchHeader(etag) == IF etag # <<>> THEN <<DQ>> \o etag \o <<DQ>> ELSE <<"*">>

\* the server's precondition: * matches any existing object, otherwise the
\* header must be the current strong tag
PreconditionHolds(header, obj) == header = <<"*">> \/ header = StrongTag(obj.ver)

(* --------------------------- calendar objects -------------------------- *)
\* VEVENT components: one that a rule matches once its summary is normalised
\* and that is not yet as the rule wants it, one that already is, one whose
\* summary matches no rule, one without a summary
EvNeed == [SUMMARY |-> <<"t8", "FREE">>, TRANSP |-> "OPAQUE"]

EvDone == [SUMMARY |-> <<"T8">>, TRANSP |-> "TRANSPARENT", COLOR |-> "khaki"]

EvLunch == [SUMMARY |-> <<"Lunch">>]

EvNoSummary == [TRANSP |-> "OPAQUE"]

\* the calendar objects of the model: one VEVENT that needs the change; two
\* of which one matches and has it; two of which none matches; two that both
\* match, one of which needs the change
Bodies ==
    { <<EvNeed>>, <<EvDone, EvLunch>>, <<EvNoSummary, EvLunch>>, <<EvNeed, EvDone>> }

Configs ==
    [dry_run : BOOLEAN, force : BOOLEAN, limit : 0..1, normalize_summary : {TRUE}]

ZeroStats ==
    [checked |-> 0, matched_files |-> 0, already_ok_files |-> 0,
     updated_files |-> 0, failed_put |-> 0]

\* what the run did with one object (history, not program state): requests
\* sent, the decision after the first classification, the outcome of each
\* save_ics, whether the second classification matched and changed nothing,
\* and how patch_calendar_object ended
NoRecord ==
    [gets |-> 0, puts |-> 0, decided |-> "none", put1 |-> "none", put2 |-> "none",
     nodiff2 |-> FALSE, outcome |-> "none", prev |-> "none"]

\* no GET has been answered for the current object
NoResponse == [tag |-> <<>>, body |-> <<>>]

\* apply_rules_to_event is not being exercised on its own
NoEngine == [calls |-> 0]

VARIABLES
    srv,      \* the server: per object its body and version
    edits,    \* writes of the other client so far
    cfg,      \* Config
    pc,       \* where main / patch_calendar_object stands
    items,    \* the listing after the limit, less the entries the loop of main is through with
    etag,     \* local etag / fresh_etag of patch_calendar_object
    payload,  \* local new_payload / payload2
    base,     \* version of the GET response payload was computed from
    stats,    \* the counters of main
    rec,      \* per object: requests issued and outcome
    lost,     \* a PUT computed from an older version was stored
    discovery,\* how the PROPFIND of main ended (history)
    resp,     \* the answer to the last GET for the current object: ETag header, body
    eng       \* apply_rules_to_event or propfind_calendar called on its own:
              \* arguments and results

vars == <<srv, edits, cfg, pc, items, etag, payload, base, stats, rec, lost, discovery, resp, eng>>

Init ==
    /\ srv \in UNION {[1..n -> [body : Bodies, ver : {1}]] : n \in 0..MaxObjects}
    /\ edits = 0
    /\ cfg \in Configs
    /\ pc = "propfind"
    /\ items = <<>>
    /\ etag = <<>>
    /\ payload = <<>>
    /\ base = 0
    /\ stats = ZeroStats
    /\ rec = [o \in DOMAIN srv |-> NoRecord]
    /\ lost = FALSE
    /\ discovery = "pending"
    /\ resp = NoResponse
    /\ eng = NoEngine

(* ------------------------------ discovery ------------------------------ *)
\* ApplyLimit that leaves the listing as it is
ApplyLimit_Ignored(list, limit) == list

\* items[: cfg.limit] when limit > 0
ApplyLimit(list, limit) ==
    IF limit > 0 THEN SubSeq(list, 1, IF limit < Len(list) THEN limit ELSE Len(list))
    ELSE list

\* propfind_calendar answered 207: every object with its getetag, quotes
\* stripped; the one response gives the tags of all entries in one form
Propfind ==
    /\ pc = "propfind"
    /\ \E kind \in TagKinds :
         LET listing == [o \in 1..Len(srv) |->
                            [href |-> o, etag |-> Strip(TagText(kind, srv[o].ver), DQ)]]
         IN  items' = ApplyLimit(listing, cfg.limit)
    /\ stats' = ZeroStats
    /\ pc' = IF items' = <<>> THEN "done" ELSE "get1"
    /\ UNCHANGED <<srv, edits, cfg, etag, payload, base, rec, lost>>
    /\ discovery' = "listed"
    /\ UNCHANGED <<resp, eng>>

\* PropfindHTTPError with the exception swallowed: the run goes on with an
\* empty listing
PropfindHTTPError_Swallowed ==
    /\ pc = "propfind"
    /\ pc' = "done"
    /\ discovery' = "http_error"
    /\ UNCHANGED <<srv, edits, cfg, items, etag, payload, base, stats, rec, lost, resp, eng>>

\* raise_for_status raised HTTPError: main exits
PropfindHTTPError ==
    /\ pc = "propfind"
    /\ pc' = "exit_propfind"
    /\ UNCHANGED <<srv, edits, cfg, items, etag, payload, base, stats, rec, lost>>
    /\ discovery' = "http_error"
    /\ UNCHANGED <<resp, eng>>

\* connection error or a body ET.fromstring rejects: no handler in main
PropfindUncaught ==
    /\ pc = "propfind"
    /\ pc' = "crash_propfind"
    /\ UNCHANGED <<srv, edits, cfg, items, etag, payload, base, stats, rec, lost>>
    /\ discovery' = "uncaught"
    /\ UNCHANGED <<resp, eng>>

(* ------------------------- patch_calendar_object ----------------------- *)
\* cur that reads the entries from the far end of the listing
cur_FromEnd == items[Len(items)].href

\* the entry the loop of main is at
cur == Head(items).href

\* the loop over cal.walk(): every VEVENT goes through apply_rules_to_event
Classify(body, c) ==
    LET res == [i \in 1..Len(body) |-> apply_rules_to_event(body[i], c)]
    IN  [matched_total |-> Cardinality({i \in 1..Len(body) : res[i].matched}),
         changed_total |-> Cardinality({i \in 1..Len(body) : res[i].changed \/ c.force}),
         changed_any |-> \E i \in 1..Len(body) : res[i].changed,
         body |-> [i \in 1..Len(body) |-> res[i].vevent]]

\* Decision without the already-ok exit: every matched object is written
Decision_AlwaysWrite(cl, c) ==
    IF cl.matched_total = 0 THEN "unmatched" ELSE "write"

\* Decision with the force flag tested before the match count
Decision_ForceFirst(cl, c) ==
    IF c.force THEN "write"
    ELSE IF cl.matched_total = 0 THEN "unmatched"
    ELSE IF cl.changed_total = 0 THEN "already_ok"
    ELSE "write"

\* Decision that looks at the changes alone and forgets the force flag
Decision_ForgetForce(cl, c) ==
    IF cl.matched_total = 0 THEN "unmatched"
    ELSE IF ~cl.changed_any THEN "already_ok"
    ELSE "write"

\* what patch_calendar_object does after the counting loop
Decision(cl, c) ==
    IF cl.matched_total = 0 THEN "unmatched"
    ELSE IF cl.changed_total = 0 /\ ~c.force THEN "already_ok"
    ELSE "write"

Bump(st, k) == [st EXCEPT ![k] = @ + 1]

\* patch_calendar_object returned: the loop of main goes on
Return ==
    /\ items' = Tail(items)
    /\ pc' = IF Tail(items) = <<>> THEN "done" ELSE "get1"
    /\ etag' = <<>>
    /\ payload' = <<>>
    /\ base' = 0
    /\ resp' = NoResponse

\* an exception nothing catches ends the process
Crash(where) ==
    /\ pc' = where
    /\ UNCHANGED <<items, etag, payload, base, resp>>

\* etag = etag or etag_hint with etag from the GET: the tag for the first store
FirstTag_HintFirst(got, hint) == IF hint # <<>> THEN hint ELSE got

FirstTag(got, hint) == IF got # <<>> THEN got ELSE hint

\* first load_ics answered 200 with a body from_ical accepts
Get1 ==
    /\ pc = "get1"
    /\ \E kind \in TagKinds :
         LET o == cur
             got == Strip(TagText(kind, srv[o].ver), DQ)
             tag == FirstTag(got, Head(items).etag)
             cl == Classify(srv[o].body, cfg)
             d == Decision(cl, cfg)
         IN  /\ rec' = [rec EXCEPT ![o].gets = @ + 1, ![o].decided = d,
                                   ![o].outcome = IF d = "write" THEN @ ELSE d]
             /\ stats' = CASE d = "unmatched" -> Bump(stats, "checked")
                           [] d = "already_ok" ->
                                Bump(Bump(stats, "matched_files"), "already_ok_files")
                           [] OTHER -> Bump(stats, "matched_files")
             /\ IF d = "write"
                THEN /\ pc' = "put1"
                     /\ etag' = tag
                     /\ payload' = cl.body
                     /\ base' = srv[o].ver
                     /\ resp' = [tag |-> TagText(kind, srv[o].ver), body |-> srv[o].body]
                     /\ items' = items
                ELSE Return
    /\ UNCHANGED <<srv, edits, cfg, lost>>
    /\ UNCHANGED <<discovery, eng>>

\* first load_ics: raise_for_status raised HTTPError, logged, return
Get1HTTPError ==
    /\ pc = "get1"
    /\ rec' = [rec EXCEPT ![cur].gets = @ + 1, ![cur].outcome = "fetch_error"]
    /\ Return
    /\ UNCHANGED <<srv, edits, cfg, stats, lost>>
    /\ UNCHANGED <<discovery, eng>>

\* first load_ics: the request itself failed (ConnectionError is no HTTPError)
Get1ConnError ==
    /\ pc = "get1"
    /\ rec' = [rec EXCEPT ![cur].gets = @ + 1]
    /\ Crash("crash_get1")
    /\ UNCHANGED <<srv, edits, cfg, stats, lost>>
    /\ UNCHANGED <<discovery, eng>>

\* first load_ics answered 200 with a body Calendar.from_ical rejects
Get1Unparseable ==
    /\ pc = "get1"
    /\ rec' = [rec EXCEPT ![cur].gets = @ + 1]
    /\ Crash("crash_parse1")
    /\ UNCHANGED <<srv, edits, cfg, stats, lost>>
    /\ UNCHANGED <<discovery, eng>>

\* save_ics: the outcomes of one call
SaveResults == {"dry", "ok", "412", "err", "exc"}

\* save_ics without the dry-run exit: the request is sent in a dry run too
save_ics_NoDryRun(o, r) ==
    /\ r # "dry"
    /\ r = "ok" => PreconditionHolds(IfMatchHeader(etag), srv[o])
    /\ r = "412" => ~PreconditionHolds(IfMatchHeader(etag), srv[o])
    /\ srv' = IF r = "ok"
              THEN [srv EXCEPT ![o] = [body |-> payload, ver |-> @.ver + 1]]
              ELSE srv
    /\ lost' = (lost \/ (r = "ok" /\ base # srv[o].ver))

\* save_ics that sends no If-Match header when cfg.force is set
save_ics_ForceUnconditional(o, r) ==
    /\ (r = "dry") = cfg.dry_run
    /\ r = "ok" => (cfg.force \/ PreconditionHolds(IfMatchHeader(etag), srv[o]))
    /\ r = "412" => (~cfg.force /\ ~PreconditionHolds(IfMatchHeader(etag), srv[o]))
    /\ srv' = IF r = "ok"
              THEN [srv EXCEPT ![o] = [body |-> payload, ver |-> @.ver + 1]]
              ELSE srv
    /\ lost' = (lost \/ (r = "ok" /\ base # srv[o].ver))

\* save_ics with outcome r: the request it sends and what the server does
save_ics(o, r) ==
    /\ (r = "dry") = cfg.dry_run
    /\ r = "ok" => PreconditionHolds(IfMatchHeader(etag), srv[o])
    /\ r = "412" => ~PreconditionHolds(IfMatchHeader(etag), srv[o])
    /\ srv' = IF r = "ok"
              THEN [srv EXCEPT ![o] = [body |-> payload, ver |-> @.ver + 1]]
              ELSE srv
    /\ lost' = (lost \/ (r = "ok" /\ base # srv[o].ver))

\* True for the dry run and for 200/201/204
Saved(r) == r \in {"dry", "ok"}

\* what follows the first save_ics: return on True, the retry path on False;
\* an exception of the request leaves patch_calendar_object and main
AfterFirstSave(r) ==
    IF Saved(r) THEN "return" ELSE IF r = "exc" THEN "raise" ELSE "retry"

\* AfterSecondSave that logs a failed second store without counting it
AfterSecondSave_Uncounted(r) ==
    IF Saved(r) THEN "updated" ELSE "retry_exception"

\* what follows the second save_ics, inside try / except Exception
AfterSecondSave(r) ==
    CASE Saved(r) -> "updated"
      [] r = "exc" -> "retry_exception"
      [] OTHER -> "failed_put"

\* Put1 that counts a failed first store in failed_put before the retry
Put1_CountsFirstFailure ==
    /\ pc = "put1"
    /\ \E r \in SaveResults :
         LET then == AfterFirstSave(r)
         IN  /\ save_ics(cur, r)
             /\ rec' = [rec EXCEPT ![cur].puts = IF r = "dry" THEN @ ELSE @ + 1,
                                   ![cur].put1 = r,
                                   ![cur].outcome = IF then = "return" THEN "updated" ELSE @]
             /\ stats' = CASE then = "return" -> Bump(stats, "updated_files")
                           [] then = "retry" -> Bump(stats, "failed_put")
                           [] OTHER -> stats
             /\ CASE then = "return" -> Return
                  [] then = "raise" -> Crash("crash_put1")
                  [] OTHER -> /\ pc' = "get2"
                              /\ UNCHANGED <<items, etag, payload, base, resp>>
    /\ UNCHANGED <<edits, cfg>>
    /\ UNCHANGED <<discovery, eng>>

\* first save_ics
Put1 ==
    /\ pc = "put1"
    /\ \E r \in SaveResults :
         LET then == AfterFirstSave(r)
         IN  /\ save_ics(cur, r)
             /\ rec' = [rec EXCEPT ![cur].puts = IF r = "dry" THEN @ ELSE @ + 1,
                                   ![cur].put1 = r,
                                   ![cur].outcome = IF then = "return" THEN "updated" ELSE @]
             /\ stats' = IF then = "return" THEN Bump(stats, "updated_files") ELSE stats
             /\ CASE then = "return" -> Return
                  [] then = "raise" -> Crash("crash_put1")
                  [] OTHER -> /\ pc' = "get2"
                              /\ UNCHANGED <<items, etag, payload, base, resp>>
    /\ UNCHANGED <<edits, cfg>>
    /\ UNCHANGED <<discovery, eng>>

\* RetryTag that keeps the tag of the first store when the second GET has none
RetryTag_KeepsFirst(fresh, first) == IF fresh # <<>> THEN fresh ELSE first

\* the tag for the second store: fresh_etag as the second load_ics returned it
RetryTag(fresh, first) == fresh

\* second load_ics answered 200 with a body from_ical accepts
Get2 ==
    /\ pc = "get2"
    /\ \E kind \in TagKinds :
         LET o == cur
             cl == Classify(srv[o].body, cfg)
         IN  /\ rec' = [rec EXCEPT ![o].gets = @ + 1, ![o].nodiff2 = (cl.matched_total > 0 /\ ~cl.changed_any)]
             /\ etag' = RetryTag(Strip(TagText(kind, srv[o].ver), DQ), etag)
             /\ payload' = cl.body
             /\ base' = srv[o].ver
             /\ resp' = [tag |-> TagText(kind, srv[o].ver), body |-> srv[o].body]
    /\ pc' = "put2"
    /\ UNCHANGED <<srv, edits, cfg, items, stats, lost>>
    /\ UNCHANGED <<discovery, eng>>

\* second load_ics: HTTPError, logged, return
Get2HTTPError ==
    /\ pc = "get2"
    /\ rec' = [rec EXCEPT ![cur].gets = @ + 1, ![cur].outcome = "refetch_error"]
    /\ Return
    /\ UNCHANGED <<srv, edits, cfg, stats, lost>>
    /\ UNCHANGED <<discovery, eng>>

\* second load_ics: the request itself failed, outside the handler for HTTPError
Get2ConnError ==
    /\ pc = "get2"
    /\ rec' = [rec EXCEPT ![cur].gets = @ + 1]
    /\ Crash("crash_get2")
    /\ UNCHANGED <<srv, edits, cfg, stats, lost>>
    /\ UNCHANGED <<discovery, eng>>

\* second load_ics answered 200 with a body from_ical rejects: except Exception
Get2Unparseable ==
    /\ pc = "get2"
    /\ rec' = [rec EXCEPT ![cur].gets = @ + 1, ![cur].outcome = "retry_exception"]
    /\ Return
    /\ UNCHANGED <<srv, edits, cfg, stats, lost>>
    /\ UNCHANGED <<discovery, eng>>

\* second save_ics, inside try / except Exception
Put2 ==
    /\ pc = "put2"
    /\ \E r \in SaveResults :
         LET out == AfterSecondSave(r)
         IN  /\ save_ics(cur, r)
             /\ rec' = [rec EXCEPT ![cur].puts = IF r = "dry" THEN @ ELSE @ + 1,
                                   ![cur].put2 = r,
                                   ![cur].outcome = out]
             /\ stats' = CASE out = "updated" -> Bump(stats, "updated_files")
                           [] out = "failed_put" -> Bump(stats, "failed_put")
                           [] OTHER -> stats
    /\ Return
    /\ UNCHANGED <<edits, cfg>>
    /\ UNCHANGED <<discovery, eng>>

(* ----------------------------- environment ----------------------------- *)
\* Another client stores a new body, and the server issues a new tag.  Only
\* writes to the object the run is working on are modelled: a write to a later
\* object acts like the same write made once the run has reached that object,
\* and a write to an object the run is through with changes nothing it reads.
OtherClientEdit ==
    /\ pc \in {"get1", "put1", "get2", "put2"}
    /\ edits < MaxEdits
    /\ \E b \in Bodies :
         /\ b # srv[cur].body
         /\ srv' = [srv EXCEPT ![cur] = [body |-> b, ver |-> @.ver + 1]]
    /\ edits' = edits + 1
    /\ UNCHANGED <<cfg, pc, items, etag, payload, base, stats, rec, lost>>
    /\ UNCHANGED <<discovery, resp, eng>>

\* The server never answers the request that is out (PROPFIND, GET or PUT).
\* session.request, session.get and session.put are called without timeout=,
\* so the call waits without limit and no code after it runs.
NoAnswer ==
    /\ pc \in {"propfind", "get1", "put1", "get2", "put2"}
    /\ pc \in {"put1", "put2"} => ~cfg.dry_run
    /\ rec' = CASE pc \in {"get1", "get2"} -> [rec EXCEPT ![cur].gets = @ + 1]
                 [] pc \in {"put1", "put2"} -> [rec EXCEPT ![cur].puts = @ + 1]
                 [] OTHER -> rec
    /\ pc' = "hung"
    /\ UNCHANGED <<srv, edits, cfg, items, etag, payload, base, stats, lost, discovery, resp, eng>>

Next ==
    \/ Propfind \/ PropfindHTTPError \/ PropfindUncaught
    \/ Get1 \/ Get1HTTPError \/ Get1ConnError \/ Get1Unparseable
    \/ Put1
    \/ Get2 \/ Get2HTTPError \/ Get2ConnError \/ Get2Unparseable
    \/ Put2
    \/ OtherClientEdit
    \/ NoAnswer

Spec == Init /\ [][Next]_vars

(* ------------------ a run with no other client ------------------------- *)
\* A run over a collection of up to MaxObjects + 1 objects under every limit
\* up to that size, while no other client writes.  Each object is one the run
\* writes or one no rule matches.
InitRun ==
    /\ srv \in UNION {[1..n -> [body : {<<EvNeed>>, <<EvNoSummary, EvLunch>>}, ver : {1}]] :
                        n \in 0..(MaxObjects + 1)}
    /\ edits = 0
    /\ cfg \in [dry_run : {FALSE}, force : BOOLEAN, limit : 0..(MaxObjects + 1),
                normalize_summary : {TRUE}]
    /\ pc = "propfind"
    /\ items = <<>>
    /\ etag = <<>>
    /\ payload = <<>>
    /\ base = 0
    /\ stats = ZeroStats
    /\ rec = [o \in DOMAIN srv |-> NoRecord]
    /\ lost = FALSE
    /\ discovery = "pending"
    /\ resp = NoResponse
    /\ eng = NoEngine

NextRun ==
    \/ Propfind \/ PropfindHTTPError \/ PropfindUncaught
    \/ Get1 \/ Get1HTTPError \/ Get1ConnError \/ Get1Unparseable
    \/ Put1
    \/ Get2 \/ Get2HTTPError \/ Get2ConnError \/ Get2Unparseable
    \/ Put2
    \/ NoAnswer

SpecRun == InitRun /\ [][NextRun]_vars

(* ----------------------------- two runs -------------------------------- *)
\* how patch_calendar_object ends when every request is answered and every
\* store is accepted
CleanOutcomes == {"unmatched", "already_ok", "updated"}

\* The run has written its final log after going through every object of the
\* collection with a clean outcome, and main is started a second time on the
\* same collection without --force.  What the first run did with each object
\* is kept in prev.
RunAgain ==
    /\ pc = "done"
    /\ discovery = "listed"
    /\ srv # <<>>
    /\ \A o \in DOMAIN rec : rec[o].prev = "none" /\ rec[o].outcome \in CleanOutcomes
    /\ cfg' = [cfg EXCEPT !.force = FALSE]
    /\ rec' = [o \in DOMAIN rec |-> [NoRecord EXCEPT !.prev = rec[o].outcome]]
    /\ pc' = "propfind"
    /\ discovery' = "pending"
    /\ UNCHANGED <<srv, edits, items, etag, payload, base, stats, lost, resp, eng>>

NextAgain == NextRun \/ RunAgain

SpecAgain == InitRun /\ [][NextAgain]_vars

(* ------------------- the rule engine on its own ------------------------- *)
\* rules to draw rule lists from: the first entry of RULES; a pattern without
\* anchors on the same word, with another colour and busy; a rule without a
\* colour; a pattern anchored at the end only, without a colour and busy
RulePool ==
    { RULES[1],
      [pattern |-> [lit |-> <<"T8">>, anchorStart |-> FALSE, anchorEnd |-> FALSE],
       color |-> "red", make_free |-> FALSE],
      [pattern |-> Pat(<<"Lunch">>), color |-> "", make_free |-> TRUE],
      [pattern |-> [lit |-> <<"T8">>, anchorStart |-> FALSE, anchorEnd |-> TRUE],
       color |-> "", make_free |-> FALSE] }

RuleLists == UNION {[1..n -> RulePool] : n \in 0..MaxRules}

\* summaries: exact, with a trailing status word, with a leading word, of the
\* colourless rule, matching nothing
Summaries == { <<"T8">>, <<"t8", "FREE">>, <<"my", "T8">>, <<"Lunch">>, <<"Dentist">> }

\* a VEVENT with DTSTART and, where the one-or-no-element set is not empty,
\* SUMMARY, TRANSP and COLOR
Vevent(s, t, c) ==
    LET optional == (IF s # {} THEN {"SUMMARY"} ELSE {})
                    \cup (IF t # {} THEN {"TRANSP"} ELSE {})
                    \cup (IF c # {} THEN {"COLOR"} ELSE {})
    IN  [f \in {"DTSTART"} \cup optional |->
            CASE f = "SUMMARY" -> CHOOSE x \in s : TRUE
              [] f = "TRANSP" -> CHOOSE x \in t : TRUE
              [] f = "COLOR" -> CHOOSE x \in c : TRUE
              [] OTHER -> "20250101T090000"]

Vevents ==
    { Vevent(s, t, c) : s \in {{}} \cup {{x} : x \in Summaries},
                         t \in {{}, {"OPAQUE"}, {"TRANSPARENT"}},
                         c \in {{}, {"khaki"}, {"red"}} }

InitRules ==
    /\ srv = <<>>
    /\ edits = 0
    /\ cfg \in [dry_run : {FALSE}, force : {FALSE}, limit : {0}, normalize_summary : BOOLEAN]
    /\ pc = "rules"
    /\ items = <<>>
    /\ etag = <<>>
    /\ payload = <<>>
    /\ base = 0
    /\ stats = ZeroStats
    /\ rec = <<>>
    /\ lost = FALSE
    /\ discovery = "pending"
    /\ resp = NoResponse
    /\ \E rules \in RuleLists, v \in Vevents :
         eng = [calls |-> 0, rules |-> rules, given |-> v, before |-> v, vevent |-> v,
                ret |-> <<FALSE, FALSE>>]

\* one call of apply_rules_to_event on the VEVENT, which it changes in place
ApplyRulesCall ==
    /\ pc = "rules"
    /\ eng.calls < MaxCalls
    /\ LET r == ApplyRules(eng.rules, eng.vevent, cfg.normalize_summary)
       IN  eng' = [eng EXCEPT !.calls = @ + 1, !.before = eng.vevent,
                              !.vevent = r.vevent, !.ret = <<r.matched, r.changed>>]
    /\ UNCHANGED <<srv, edits, cfg, pc, items, etag, payload, base, stats, rec, lost,
                   discovery, resp>>

SpecRules == InitRules /\ [][ApplyRulesCall]_vars

(* ------------------- propfind_calendar on its own ---------------------- *)
\* cfg.base_url as scheme and host followed by the path of the user's calendars
BaseUrls ==
    { <<"https://nc.example", "/remote.php/dav/calendars/u/">>,
      <<"http://dav.example:8080", "/dav/">> }

\* build_origin: scheme://netloc of the base URL
build_origin(base_url) == <<Head(base_url)>>

\* tokens whose text begins with http, and tokens whose text begins with /
HttpTokens == {"https://nc.example", "http://dav.example:8080", "httpdocs/"}

SlashTokens == {"/", "/remote.php/dav/calendars/u/", "/dav/"}

\* str.startswith("http") and str.startswith("/")
StartsWithHttp(text) == text # <<>> /\ Head(text) \in HttpTokens

StartsWithSlash(text) == text # <<>> /\ Head(text) \in SlashTokens

\* str.endswith(".ics")
EndsWithIcs(text) == text # <<>> /\ text[Len(text)] = ".ics"

\* str.lower() of a content type
Lower(t) == IF t = "Text/Calendar" THEN "text/calendar" ELSE t

\* "text/calendar" in ctype, ctype lower-cased
HasCalendarType(ctype) == \E i \in 1..Len(ctype) : Lower(ctype[i]) = "text/calendar"

\* the absolute URL of an href, built against the origin
AbsHref(origin, href) ==
    IF StartsWithHttp(href) THEN href
    ELSE origin \o (IF StartsWithSlash(href) THEN href ELSE <<"/">> \o href)

\* Recognised that looks at the suffix of the href alone
Recognised_SuffixOnly(e) == e.prop /\ EndsWithIcs(e.href)

\* a d:response that becomes an item: it has a d:propstat/d:prop, and its
\* href ends with .ics or its content type names text/calendar
Recognised(e) == e.prop /\ (EndsWithIcs(e.href) \/ HasCalendarType(e.ctype))

\* the loop over root.findall("d:response"): the items in response order
ParseListing(response, base_url) ==
    LET kept == SelectSeq(response, Recognised)
    IN  [i \in 1..Len(kept) |->
            [href |-> AbsHref(build_origin(base_url), kept[i].href),
             etag |-> Strip(kept[i].etag, DQ)]]

\* d:response elements: href, whether there is a d:propstat/d:prop, and the
\* texts of getcontenttype and getetag ("" when missing)
Entry(href, prop, ctype, tag) == [href |-> href, prop |-> prop, ctype |-> ctype, etag |-> tag]

\* an absolute href, a root-relative one, one without a leading slash, the
\* collection itself, a relative one whose first segment begins with http,
\* one recognised by its content type alone, one without d:prop
EntryPool ==
    { Entry(<<"https://nc.example", "/remote.php/dav/calendars/u/", "cal/", "a", ".ics">>,
            TRUE, <<"text/calendar">>, StrongTag(1)),
      Entry(<<"/remote.php/dav/calendars/u/", "cal/", "b", ".ics">>,
            TRUE, <<"text/calendar", "; charset=utf-8">>, StrongTag(2)),
      Entry(<<"cal/", "c", ".ics">>, TRUE, <<>>, <<>>),
      Entry(<<"/remote.php/dav/calendars/u/", "cal/">>, TRUE, <<"httpd/unix-directory">>, <<>>),
      Entry(<<"httpdocs/", "d", ".ics">>, TRUE, <<>>, StrongTag(3)),
      Entry(<<"/remote.php/dav/calendars/u/", "cal/", "e">>, TRUE, <<"Text/Calendar">>, WeakTag(4)),
      Entry(<<"/remote.php/dav/calendars/u/", "cal/", "f", ".ics">>, FALSE, <<>>, <<>>) }

Responses == UNION {[1..n -> EntryPool] : n \in 0..MaxEntries}

InitListing ==
    /\ srv = <<>>
    /\ edits = 0
    /\ cfg \in [dry_run : {FALSE}, force : {FALSE}, limit : {0}, normalize_summary : {TRUE}]
    /\ pc = "listing"
    /\ items = <<>>
    /\ etag = <<>>
    /\ payload = <<>>
    /\ base = 0
    /\ stats = ZeroStats
    /\ rec = <<>>
    /\ lost = FALSE
    /\ discovery = "pending"
    /\ resp = NoResponse
    /\ \E b \in BaseUrls, r \in Responses :
         eng = [calls |-> 0, base_url |-> b, response |-> r, items |-> <<>>]

\* one call of propfind_calendar whose request is answered 207 with the response
PropfindCall ==
    /\ pc = "listing"
    /\ eng.calls = 0
    /\ eng' = [eng EXCEPT !.calls = 1, !.items = ParseListing(eng.response, eng.base_url)]
    /\ UNCHANGED <<srv, edits, cfg, pc, items, etag, payload, base, stats, rec, lost,
                   discovery, resp>>

SpecListing == InitListing /\ [][PropfindCall]_vars

(* ---------------------- vocabulary of the properties -------------------- *)
\* patch_calendar_object is at work on object o
InFlight(o) == pc \in {"get1", "put1", "get2", "put2"} /\ items # <<>> /\ cur = o

\* an exception left main while it was at work on an object
Crashed == pc \in {"crash_get1", "crash_parse1", "crash_put1", "crash_get2"}

\* the run waits for an answer that never comes
Hung == pc = "hung"

\* patch_calendar_object was called for o and has returned
Returned(o) ==
    rec[o].gets > 0 /\ ~InFlight(o) /\ ~((Crashed \/ Hung) /\ items # <<>> /\ cur = o)

\* the rule that applies to a VEVENT, read off its summary: 0 if none
RuleOf(vevent) ==
    IF "SUMMARY" \notin DOMAIN vevent THEN 0
    ELSE FirstMatch(RULES, IF cfg.normalize_summary
                           THEN normalize_summary(vevent["SUMMARY"])
                           ELSE vevent["SUMMARY"])

\* the VEVENT has the transparency and the color its rule asks for
AsWanted(vevent) ==
    LET rule == RULES[RuleOf(vevent)]
    IN  /\ Get(vevent, "TRANSP") = (IF rule.make_free THEN "TRANSPARENT" ELSE "OPAQUE")
        /\ rule.color # "" => Get(vevent, "COLOR") = rule.color

SomeMatch(body) == \E i \in 1..Len(body) : RuleOf(body[i]) # 0

AllAsWanted(body) == \A i \in 1..Len(body) : RuleOf(body[i]) # 0 => AsWanted(body[i])

\* the step is a first GET answered with a body that parses
FirstFetch == pc = "get1" /\ rec'[cur].decided # "none"

(* ------------------------------- C1 ------------------------------------ *)
\* C1: no lost update: every PUT the server accepts was computed from the
\* version the server held at the moment of the PUT.
C1_NoLostUpdate == ~lost

C3_OnlyPreconditionFailedRetries ==
    \A o \in DOMAIN rec :
        rec[o].put1 = "err" => /\ rec[o].gets <= 1
                               /\ rec[o].puts <= 1
                               /\ ~(InFlight(o) /\ pc \in {"get2", "put2"})

(* ------------------------------- C4 ------------------------------------ *)
\* C4: in the retry after a 412, when the re-fetched body has every matching
\* VEVENT as its rule wants it, no second PUT is sent.
C4_NoSecondWriteWithoutDiff ==
    \A o \in DOMAIN rec :
        (~cfg.force /\ rec[o].put1 = "412" /\ rec[o].nodiff2) =>
            /\ rec[o].puts <= 1
            /\ rec[o].outcome # "updated"

(* ------------------------------- C5 ------------------------------------ *)
\* C5: without force, an object whose matching VEVENTs all have the
\* transparency and color of their rule is counted matched and already-ok,
\* and no PUT is sent for it.
C5_NoOpDetection ==
    /\ [][(FirstFetch /\ ~cfg.force /\ SomeMatch(srv[cur].body) /\ AllAsWanted(srv[cur].body)) =>
            /\ rec'[cur].outcome = "already_ok"
            /\ pc' \in {"get1", "done"}
            /\ stats' = [stats EXCEPT !.matched_files = @ + 1, !.already_ok_files = @ + 1]]_vars
    /\ [](\A o \in DOMAIN rec :
            rec[o].outcome = "already_ok" => rec[o].puts = 0 /\ rec[o].gets = 1)

\* an object of two VEVENTs, one matching and as wanted, ended already-ok
C5_Witness ==
    \E o \in DOMAIN rec :
        /\ ~cfg.force
        /\ rec[o].outcome = "already_ok"
        /\ srv[o].body = <<EvDone, EvLunch>>
        /\ Returned(o)

(* ------------------------------- C6 ------------------------------------ *)
\* C6: an object in which no VEVENT matches a rule ends unmatched after its
\* one GET, with no PUT, whatever force and dry-run are.
C6_UnmatchedUntouched ==
    /\ [][(FirstFetch /\ ~SomeMatch(srv[cur].body)) =>
            /\ rec'[cur].outcome = "unmatched"
            /\ pc' \in {"get1", "done"}
            /\ stats' = [stats EXCEPT !.checked = @ + 1]]_vars
    /\ [](\A o \in DOMAIN rec :
            rec[o].outcome = "unmatched" => rec[o].puts = 0 /\ rec[o].gets = 1)

\* under force, without dry-run, an object with a VEVENT without summary and
\* one with a summary no rule matches ended unmatched
C6_Witness ==
    \E o \in DOMAIN rec :
        /\ cfg.force /\ ~cfg.dry_run
        /\ rec[o].outcome = "unmatched"
        /\ srv[o].body = <<EvNoSummary, EvLunch>>
        /\ Returned(o)

(* ------------------------------- C7 ------------------------------------ *)
\* C7: no failure on one object ends the run: only discovery may end it early.
C7_PerObjectErrorsNeverAbort == ~Crashed

(* ------------------------------- C8 ------------------------------------ *)
\* C8: an object whose first store failed and that was not updated by the
\* retry is counted in failed_put.
C8_RetryFailuresCounted ==
    \A o \in DOMAIN rec :
        (rec[o].put1 \in {"412", "err"} /\ Returned(o)) =>
            rec[o].outcome \in {"updated", "failed_put"}

(* ------------------------------- C9 ------------------------------------ *)
\* C9: in a dry run no PUT is sent and the server's objects change only by
\* the other client; an object that would be written is counted as updated.
C9_DryRunWritesNothing ==
    /\ [](cfg.dry_run => \A o \in DOMAIN rec : rec[o].puts = 0)
    /\ [][(cfg.dry_run /\ srv' # srv) => edits' = edits + 1]_vars
    /\ [][(cfg.dry_run /\ FirstFetch /\ SomeMatch(srv[cur].body)
            /\ (cfg.force \/ ~AllAsWanted(srv[cur].body))) => pc' = "put1"]_vars
    /\ [][(cfg.dry_run /\ pc = "put1" /\ pc' # "put1") =>
            /\ rec'[cur].outcome = "updated"
            /\ stats' = [stats EXCEPT !.updated_files = @ + 1]]_vars

\* a dry run counted an object as updated, with and without force
C9_Witness ==
    \E o \in DOMAIN rec :
        /\ cfg.dry_run
        /\ rec[o].put1 = "dry"
        /\ rec[o].outcome = "updated"
        /\ stats.updated_files = Len(srv)
        /\ Len(srv) = MaxObjects

(* ------------------------------- C10 ----------------------------------- *)
\* C10: under force, without dry-run, an object with a matching VEVENT goes
\* on to a PUT though classification changed nothing, and is never counted
\* already-ok.
C10_ForceWrites ==
    /\ [][(cfg.force /\ FirstFetch /\ SomeMatch(srv[cur].body)) =>
            /\ pc' = "put1"
            /\ rec'[cur].outcome # "already_ok"]_vars
    /\ [][(cfg.force /\ ~cfg.dry_run /\ pc = "put1" /\ pc' # "put1") =>
            rec'[cur].puts = rec[cur].puts + 1]_vars
    /\ [](cfg.force =>
            /\ stats.already_ok_files = 0
            /\ \A o \in DOMAIN rec : rec[o].outcome # "already_ok")

\* under force the unchanged body of an object that was as wanted was stored
C10_Witness ==
    \E o \in DOMAIN rec :
        /\ cfg.force /\ ~cfg.dry_run
        /\ edits = 0
        /\ rec[o].put1 = "ok"
        /\ srv[o] = [body |-> <<EvDone, EvLunch>>, ver |-> 2]

(* ------------------------------- C11 ----------------------------------- *)
\* a step in which save_ics sent a PUT for the current object and the server
\* stored it
StoreAccepted ==
    \/ pc = "put1" /\ rec'[cur].put1 = "ok"
    \/ pc = "put2" /\ rec'[cur].put2 = "ok"

\* C11 as stated: in force mode no store is answered 412.
C11_ForceWaivesPrecondition ==
    cfg.force => \A o \in DOMAIN rec : rec[o].put1 # "412" /\ rec[o].put2 # "412"

\* C11, amended: force does not waive the precondition.  A store under force
\* carries the same If-Match header as any other store (the tag in hand in
\* quotes, * without one), the server accepts it only when that header matches
\* the object's current tag, and so it is answered 412 after a concurrent change.
C11_ForceKeepsPrecondition ==
    [][(cfg.force /\ StoreAccepted)
          => PreconditionHolds(IfMatchHeader(etag), srv[cur])]_vars

\* a forced store was answered 412 after the other client's write
C11_Witness ==
    \E o \in DOMAIN rec :
        /\ cfg.force /\ ~cfg.dry_run
        /\ edits = 1
        /\ rec[o].put1 = "412"

(* --------------------------- C12 .. C15 -------------------------------- *)
\* the title the engine matches on for the VEVENT it was given
GivenTitle ==
    IF cfg.normalize_summary THEN normalize_summary(eng.given["SUMMARY"])
    ELSE eng.given["SUMMARY"]

\* the rules of the list whose pattern matches the given VEVENT's title
MatchingRules ==
    IF "SUMMARY" \notin DOMAIN eng.given THEN {}
    ELSE {i \in 1..Len(eng.rules) : Matches(eng.rules[i].pattern, GivenTitle)}

\* VEVENT v with the transparency of the rule, and its colour if it names one
WithRule(rule, v) ==
    LET v1 == Put(v, "TRANSP", IF rule.make_free THEN "TRANSPARENT" ELSE "OPAQUE")
    IN  IF rule.color = "" THEN v1 ELSE Put(v1, "COLOR", rule.color)

\* C12: when two or more rules of the list match, the VEVENT after the call
\* carries the transparency and colour of the earliest matching rule, and
\* nothing of any later one.
C12_FirstMatchWins ==
    (eng.calls = 1 /\ Cardinality(MatchingRules) >= 2)
        => \E k \in MatchingRules :
              /\ \A j \in MatchingRules : k <= j
              /\ eng.vevent = WithRule(eng.rules[k], eng.given)
              /\ eng.ret[1]

\* two matching rules that differ in colour and transparency; the first one's
\* values were written
C12_Witness ==
    /\ eng.calls = 1
    /\ MatchingRules = {1, 2}
    /\ eng.rules[1].color = "red" /\ eng.rules[2].color = "khaki"
    /\ eng.rules[1].make_free # eng.rules[2].make_free
    /\ "COLOR" \notin DOMAIN eng.given
    /\ Get(eng.vevent, "COLOR") = "red" /\ Get(eng.vevent, "TRANSP") = "OPAQUE"

\* C13: a second call on the result of a call leaves the VEVENT as it is and
\* reports changed = False.
C13_Idempotent ==
    eng.calls >= 2 => (eng.vevent = eng.before /\ ~eng.ret[2])

\* the first call changed a VEVENT without TRANSP and COLOR, the second call
\* matched again and changed nothing
C13_Witness ==
    /\ eng.calls = 2
    /\ DOMAIN eng.given = {"DTSTART", "SUMMARY"}
    /\ eng.vevent # eng.given
    /\ eng.ret = <<TRUE, FALSE>>

\* C14: a call adds or changes no field but TRANSP and COLOR and removes none;
\* SUMMARY stays as stored also when the title was normalised for matching.
C14_OnlyTranspAndColor ==
    eng.calls >= 1 =>
        /\ DOMAIN eng.given \subseteq DOMAIN eng.vevent
        /\ DOMAIN eng.vevent \subseteq DOMAIN eng.given \cup {"TRANSP", "COLOR"}
        /\ \A f \in DOMAIN eng.given \ {"TRANSP", "COLOR"} : eng.vevent[f] = eng.given[f]

\* a summary that matches only once normalised: TRANSP and COLOR were
\* written, SUMMARY still has its trailing status word
C14_Witness ==
    /\ eng.calls = 1
    /\ cfg.normalize_summary
    /\ "SUMMARY" \in DOMAIN eng.given
    /\ eng.given["SUMMARY"] = <<"t8", "FREE">>
    /\ eng.ret = <<TRUE, TRUE>>
    /\ eng.vevent["SUMMARY"] = <<"t8", "FREE">>
    /\ Get(eng.vevent, "COLOR") = "khaki"

\* C15: without a SUMMARY, or with a title no rule of the list matches, the
\* call returns (False, False) and the VEVENT is as it was given.
C15_NoMatchNoChange ==
    (eng.calls >= 1 /\ MatchingRules = {})
        => (eng.ret = <<FALSE, FALSE>> /\ eng.vevent = eng.given)

\* a busy-less VEVENT whose summary misses the anchored pattern of the one
\* rule in the list
C15_Witness ==
    /\ eng.calls = 1
    /\ eng.rules = <<RULES[1]>>
    /\ "SUMMARY" \in DOMAIN eng.given
    /\ eng.given["SUMMARY"] = <<"my", "T8">>
    /\ "TRANSP" \notin DOMAIN eng.given
    /\ eng.vevent = eng.given

(* ------------------------------- C16 ----------------------------------- *)
\* C16: after a PROPFIND that failed (error status, or a body that does not
\* parse) the run has stopped there, no GET or PUT was sent for any object and
\* the server is as it was; after a PROPFIND that listed nothing the run is
\* done with every counter at zero.
C16_DiscoveryFailureFatal ==
    /\ discovery \in {"http_error", "uncaught"} =>
         /\ pc = (IF discovery = "http_error" THEN "exit_propfind" ELSE "crash_propfind")
         /\ \A o \in DOMAIN rec : rec[o].gets = 0 /\ rec[o].puts = 0
         /\ \A o \in DOMAIN srv : srv[o].ver = 1
    /\ (discovery = "listed" /\ Len(srv) = 0) => (pc = "done" /\ stats = ZeroStats)

\* the PROPFIND of a collection that holds objects was answered with an error
\* status
C16_Witness ==
    /\ discovery = "http_error"
    /\ pc = "exit_propfind"
    /\ Len(srv) = MaxObjects

(* ------------------------------- C17 ----------------------------------- *)
\* C17: no request waits for its answer for ever: the run is never left
\* waiting on a server that does not answer.
C17_NoCallBlocksForever == ~Hung

(* ------------------------------- C18 ----------------------------------- *)
\* C18: when the first store of an object with one VEVENT, which a rule
\* matches, is accepted, that was the object's one GET and its one PUT, the PUT
\* went out under the If-Match precondition and stored a body whose VEVENT
\* has the rule's transparency and colour, and updated_files grew by one while
\* the other counters stayed.
C18_HappyPath ==
    [][(pc = "put1" /\ rec'[cur].put1 = "ok" /\ Len(payload) = 1 /\ RuleOf(payload[1]) # 0)
          => /\ rec'[cur].gets = 1
             /\ rec'[cur].puts = 1
             /\ PreconditionHolds(IfMatchHeader(etag), srv[cur])
             /\ srv'[cur].body = payload
             /\ AsWanted(srv'[cur].body[1])
             /\ stats' = [stats EXCEPT !.updated_files = @ + 1]
             /\ rec'[cur].outcome = "updated"]_vars

\* the VEVENT "t8 FREE" with TRANSP OPAQUE and no COLOR was fetched, changed
\* and stored under its tag, with no other client at work
C18_Witness ==
    \E o \in DOMAIN rec :
        /\ ~cfg.force /\ edits = 0
        /\ rec[o].gets = 1 /\ rec[o].puts = 1 /\ rec[o].put1 = "ok"
        /\ srv[o].ver = 2
        /\ srv[o].body = <<[SUMMARY |-> <<"t8", "FREE">>, TRANSP |-> "TRANSPARENT",
                            COLOR |-> "khaki"]>>
        /\ stats.updated_files = 1

(* ------------------------------- C19 ----------------------------------- *)
\* save_ics returned False: the PUT was answered with a failure status
StoreFailed(r) == r \in {"412", "err"}

\* C19: an object ends as failed_put only after both of its stores failed;
\* failed_put counts exactly the objects whose two stores failed; an object
\* whose first store was answered 412 and whose second store was accepted ends
\* as updated and is counted in updated_files.
C19_FailedOnlyAfterBothStores ==
    /\ \A o \in DOMAIN rec :
         /\ rec[o].outcome = "failed_put" =>
                (StoreFailed(rec[o].put1) /\ StoreFailed(rec[o].put2))
         /\ (rec[o].put1 = "412" /\ rec[o].put2 = "ok") => rec[o].outcome = "updated"
    /\ stats.failed_put =
          Cardinality({o \in DOMAIN rec : StoreFailed(rec[o].put1) /\ StoreFailed(rec[o].put2)})
    /\ stats.updated_files = Cardinality({o \in DOMAIN rec : rec[o].outcome = "updated"})

\* first store answered 412 after the other client's write, second store
\* accepted: counted as updated, failed_put still 0
C19_Witness ==
    \E o \in DOMAIN rec :
        /\ edits = 1
        /\ rec[o].put1 = "412" /\ rec[o].put2 = "ok"
        /\ rec[o].outcome = "updated"
        /\ stats.updated_files = 1 /\ stats.failed_put = 0

(* ------------------------------- C20 ----------------------------------- *)
\* the objects a GET was sent for
Fetched == {o \in DOMAIN rec : rec[o].gets > 0}

\* the number of listing entries the loop of main is to go through
ToProcess == IF cfg.limit > 0 /\ cfg.limit < Len(srv) THEN cfg.limit ELSE Len(srv)

\* C20: with limit > 0 at most limit objects are fetched and only among the
\* first limit entries of the listing; objects are fetched in listing order;
\* a run that reaches its end has fetched each of the first limit entries,
\* and every listed object when limit = 0.
C20_LimitCapsObjects ==
    /\ cfg.limit > 0 =>
         /\ Cardinality(Fetched) <= cfg.limit
         /\ \A o \in Fetched : o <= cfg.limit
    /\ \A o \in Fetched : \A p \in 1..(o - 1) : p \in Fetched
    /\ \A i \in 1..Len(items) : items[i].href = ToProcess - Len(items) + i
    /\ pc = "done" => Fetched = 1..ToProcess

\* a finished run over more objects than the limit: the entry at the limit
\* was fetched, the next one was not
C20_Witness ==
    /\ pc = "done"
    /\ cfg.limit > 0
    /\ Len(srv) > cfg.limit
    /\ rec[cfg.limit].gets > 0
    /\ rec[cfg.limit + 1].gets = 0

(* ------------------------------- C21 ----------------------------------- *)
\* the first GET of o was answered with a body Calendar.from_ical rejected
UnparseableAt(o) == pc = "crash_parse1" /\ items # <<>> /\ cur = o

\* C21: an object whose fetched body does not parse is passed over as a
\* per-object error: the run is never left standing in the parse of an object.
C21_UnparseableIsSkipped == \A o \in DOMAIN rec : ~UnparseableAt(o)

(* ------------------------------- C23 ----------------------------------- *)
\* C23: the tag the first store is sent with is the tag of the object's GET
\* response (without its quotes) whenever that response has an ETag header;
\* it is the tag of the listing only when the response has none.
C23_FirstStoreTagFromGet ==
    pc = "put1" =>
        etag = (IF resp.tag # <<>> THEN Strip(resp.tag, DQ) ELSE Head(items).etag)

\* the object changed after the listing: the listing has the tag of version
\* 1, the GET response that of version 2, and the first store goes out with
\* the latter
C23_Witness ==
    /\ pc = "put1"
    /\ Head(items).etag = <<"1">>
    /\ resp.tag = StrongTag(2)
    /\ IfMatchHeader(etag) = StrongTag(2)

(* ------------------------------- C24 ----------------------------------- *)
\* C24: the second store is built from the second GET alone: its body is the
\* re-fetched body with the rules applied again, and its tag is the tag of
\* the second GET response, the empty tag if that response has none.
C24_SecondStoreFromSecondGet ==
    pc = "put2" =>
        /\ etag = Strip(resp.tag, DQ)
        /\ payload = Classify(resp.body, cfg).body

\* the first store was answered 412 after the other client's write; the
\* second store is about to go out with the new tag and the other client's
\* body, classified
C24_Witness ==
    /\ pc = "put2"
    /\ edits = 1
    /\ rec[cur].put1 = "412"
    /\ Head(items).etag = <<"1">>
    /\ resp = [tag |-> StrongTag(2), body |-> <<EvNeed, EvDone>>]
    /\ etag = <<"2">>
    /\ Len(payload) = 2 /\ Get(payload[1], "COLOR") = "khaki"

(* ------------------------------- C25 ----------------------------------- *)
\* C25: when the run writes its final log, every object it went through is
\* counted once in checked or in matched_files, and every object counted in
\* matched_files once in already_ok_files, updated_files or failed_put.
C25_CounterAccounting ==
    pc = "done" =>
        /\ stats.matched_files =
              stats.already_ok_files + stats.updated_files + stats.failed_put
        /\ stats.checked + stats.matched_files = Cardinality(Fetched)

(* ------------------------------- C26 ----------------------------------- *)
\* a request went out for o, or the object o on the server was replaced
Touched(o) ==
    \/ rec'[o].gets # rec[o].gets
    \/ rec'[o].puts # rec[o].puts
    \/ srv'[o] # srv[o]

\* C26: no request has gone out for a listing entry behind the one the loop
\* is at; the entries before it are through; and every step that sends a
\* request or stores a body does so for the entry the loop is at.
C26_SequentialAndIsolated ==
    /\ [](\A i \in 2..Len(items) :
             rec[items[i].href].gets = 0 /\ rec[items[i].href].puts = 0)
    /\ [](\A o \in Fetched : \A p \in 1..(o - 1) :
             p \in Fetched /\ (items # <<>> => p < Head(items).href))
    /\ [][\A o \in DOMAIN rec : Touched(o) => (items # <<>> /\ o = Head(items).href)]_vars

\* the first object was stored and is through, the second one has been
\* fetched and is about to be stored
C26_Witness ==
    /\ Len(srv) = 2
    /\ pc = "put1"
    /\ Head(items).href = 2
    /\ rec[1].outcome = "updated" /\ rec[1].puts = 1
    /\ rec[2].gets = 1 /\ rec[2].puts = 0

(* ------------------------------- C27 ----------------------------------- *)
\* main is running for the second time
SecondRun == \E o \in DOMAIN rec : rec[o].prev # "none"

\* C27: in a run without force that follows a run in which every object was
\* fetched and every store accepted, with no other client writing, no PUT is
\* sent and nothing is stored; an object the first run left unmatched is
\* unmatched again and every other object is already ok; the counters of
\* updated and failed objects stay 0.
C27_SecondRunWritesNothing ==
    SecondRun =>
        /\ ~cfg.force
        /\ \A o \in DOMAIN rec :
             /\ rec[o].puts = 0
             /\ rec[o].decided \in
                   {"none", IF rec[o].prev = "unmatched" THEN "unmatched" ELSE "already_ok"}
        /\ pc \notin {"put1", "get2", "put2"}
        /\ discovery = "listed" =>
             /\ stats.updated_files = 0 /\ stats.failed_put = 0
             /\ stats.matched_files = stats.already_ok_files

\* the second run is through two objects: the one the first run stored is
\* already ok, the one no rule matches is unmatched again
C27_Witness ==
    /\ pc = "done"
    /\ Len(srv) = 2
    /\ rec[1].prev = "updated" /\ rec[1].decided = "already_ok"
    /\ rec[2].prev = "unmatched" /\ rec[2].decided = "unmatched"
    /\ srv[1].ver = 2
    /\ stats = [ZeroStats EXCEPT !.checked = 1, !.matched_files = 1, !.already_ok_files = 1]

(* --------------------------- C28 and C29 -------------------------------- *)
\* an absolute URL: scheme and host come first
IsUrl(text) == text # <<>> /\ Head(text) \in {b[1] : b \in BaseUrls}

\* the d:response elements with a d:prop whose href ends with .ics or whose
\* content type names text/calendar, in response order
CalendarEntries ==
    LET IsCalendarObject(e) ==
            /\ e.prop
            /\ \/ (e.href # <<>> /\ e.href[Len(e.href)] = ".ics")
               \/ \E i \in 1..Len(e.ctype) : e.ctype[i] \in {"text/calendar", "Text/Calendar"}
    IN  SelectSeq(eng.response, IsCalendarObject)

\* the same without the condition on d:prop
SuffixOrTypeEntries ==
    LET IsCalendarObject(e) ==
            \/ (e.href # <<>> /\ e.href[Len(e.href)] = ".ics")
            \/ \E i \in 1..Len(e.ctype) : e.ctype[i] \in {"text/calendar", "Text/Calendar"}
    IN  SelectSeq(eng.response, IsCalendarObject)

\* C28: every location propfind_calendar returns is an absolute URL: the href
\* itself if it is one, the origin followed by the href if the href begins
\* with a slash, the origin, a slash and the href otherwise.
C28_LocationsAbsolute ==
    eng.calls = 1 =>
        /\ Len(eng.items) = Len(CalendarEntries)
        /\ \A i \in 1..Len(eng.items) :
             LET href == CalendarEntries[i].href
                 origin == <<eng.base_url[1]>>
             IN  /\ IsUrl(eng.items[i].href)
                 /\ eng.items[i].href =
                       (IF IsUrl(href) THEN href
                        ELSE IF href # <<>> /\ Head(href) \in SlashTokens THEN origin \o href
                        ELSE origin \o <<"/">> \o href)

\* C29 as stated: the items are the d:response elements whose href ends with
\* .ics or whose content type names text/calendar, in response order.
C29_SuffixOrTypeListed ==
    eng.calls = 1 =>
        /\ Len(eng.items) = Len(SuffixOrTypeEntries)
        /\ \A i \in 1..Len(eng.items) :
             eng.items[i].etag = Strip(SuffixOrTypeEntries[i].etag, DQ)

\* C29, amended: the items are the d:response elements that have a
\* d:propstat/d:prop and whose href ends with .ics or whose content type names
\* text/calendar, one item each, in response order; every other element (the
\* collection, an element without d:prop) is left out.
C29_ListedIffCalendarObject ==
    eng.calls = 1 =>
        /\ Len(eng.items) = Len(CalendarEntries)
        /\ \A i \in 1..Len(eng.items) :
             /\ eng.items[i].etag = Strip(CalendarEntries[i].etag, DQ)
             /\ eng.items[i].href =
                   AbsHref(build_origin(eng.base_url), CalendarEntries[i].href)

\* the collection itself is left out, and the element after it is kept for
\* its content type though its href has no .ics suffix
C29_Witness ==
    /\ eng.calls = 1
    /\ Len(eng.response) = 2
    /\ eng.response[1].ctype = <<"httpd/unix-directory">>
    /\ eng.response[2].ctype = <<"Text/Calendar">>
    /\ Len(eng.items) = 1
    /\ eng.items[1].etag = <<"W/", DQ, "4">>

(* ------------------------------- C30 ----------------------------------- *)
\* C30: after a call that matched, TRANSP is present and is OPAQUE or
\* TRANSPARENT, TRANSPARENT exactly when the matched rule has make_free; COLOR
\* is the rule's colour if the rule names one, and otherwise what it was before
\* the call, absent included.
C30_TranspAndColorAfterMatch ==
    (eng.calls >= 1 /\ eng.ret[1]) =>
        \E k \in MatchingRules :
            /\ \A j \in MatchingRules : k <= j
            /\ "TRANSP" \in DOMAIN eng.vevent
            /\ eng.vevent["TRANSP"] \in {"OPAQUE", "TRANSPARENT"}
            /\ (eng.vevent["TRANSP"] = "TRANSPARENT") <=> eng.rules[k].make_free
            /\ eng.rules[k].color # "" => Get(eng.vevent, "COLOR") = eng.rules[k].color
            /\ eng.rules[k].color = "" =>
                   Get(eng.vevent, "COLOR") = Get(eng.before, "COLOR")

\* a rule without a colour and without make_free matched a VEVENT that had a
\* colour and no TRANSP: TRANSP is OPAQUE now, the colour is the old one
C30_Witness ==
    /\ eng.calls = 1
    /\ eng.ret = <<TRUE, TRUE>>
    /\ 1 \in MatchingRules
    /\ eng.rules[1].color = "" /\ ~eng.rules[1].make_free
    /\ "TRANSP" \notin DOMAIN eng.given
    /\ Get(eng.given, "COLOR") = "red"
    /\ Get(eng.vevent, "TRANSP") = "OPAQUE"
    /\ Get(eng.vevent, "COLOR") = "red"

(* ------- fetch_all_events (src/heurigen-extraction.py) on its own ------- *)
\* pages fetched by one call of fetch_all_events
MaxPages == 2

\* JSON values: null, a string (a text), a number, a list; Absent stands for a
\* key that the object does not have
JNull == [t |-> "null", v |-> <<>>]

JAbsent == [t |-> "absent", v |-> <<>>]

JStr(text) == [t |-> "str", v |-> text]

JNum(digits) == [t |-> "num", v |-> <<digits>>]

JList(elems) == [t |-> "list", v |-> elems]

\* Python's truth value of what dict.get returned
Truthy(j) ==
    CASE j.t = "str" -> j.v # <<>>
      [] j.t = "list" -> j.v # <<>>
      [] j.t = "num" -> j.v # <<"0">>
      [] OTHER -> FALSE

\* dict.get(key, default): the default for a missing key only
DictGet(j, default) == IF j.t = "absent" THEN default ELSE j

api_base_url == <<"https://api.v2.citiesapps.com/">>

calendar_url == api_base_url \o <<"events">>

\* urljoin(base, url) for a base that is the root of a host: an absolute URL
\* replaces the base, anything else is appended to it
urljoin(base_url, url) ==
    IF url # <<>> /\ Head(url) \in {"https://api.v2.citiesapps.com/", "https://cdn.example/"}
    THEN url ELSE base_url \o url

\* lines 101-109: the request of one pass of the loop
FeedRequest(next_path) ==
    IF Truthy(next_path)
    THEN [url |-> urljoin(api_base_url, LStrip(next_path.v, "/")), params |-> FALSE]
    ELSE [url |-> calendar_url, params |-> TRUE]

\* bodies of an answer: text that is not JSON, JSON that is not an object, an
\* object with its "data" and "nextUrl"
FeedBody(t, data, nextUrl) == [t |-> t, data |-> data, nextUrl |-> nextUrl]

FeedData == { JAbsent, JNull, JList(<<>>), JList(<<"e1">>), JList(<<"e3", "e2">>) }

FeedNextUrls ==
    { JAbsent, JNull, JStr(<<>>), JNum("5"),
      JStr(<<"/", "events", "?cursor=a">>),
      JStr(<<"https://api.v2.citiesapps.com/", "events", "?cursor=b">>) }

FeedBodies ==
    { FeedBody("invalid", JAbsent, JAbsent), FeedBody("array", JAbsent, JAbsent) }
    \cup { FeedBody("object", d, n) : d \in FeedData, n \in FeedNextUrls }

\* what a request meets: no answer (status 0: connection error or timeout),
\* an error status, or 200 with a body
FeedAnswers ==
    { [status |-> 0, body |-> FeedBody("invalid", JAbsent, JAbsent)],
      [status |-> 503, body |-> FeedBody("invalid", JAbsent, JAbsent)] }
    \cup { [status |-> 200, body |-> b] : b \in FeedBodies }

\* lines 111-135: the rest of the pass once the request met answer a
FeedPass(e, a) ==
    LET asked == [e EXCEPT !.calls = @ + 1,
                           !.trace = Append(@, [request |-> FeedRequest(e.next_path),
                                                answer |-> a])]
        batch == DictGet(a.body.data, JList(<<>>))
        next == DictGet(a.body.nextUrl, JNull)
    IN  IF a.status = 0 \/ a.status >= 400
        THEN [asked EXCEPT !.at = "returned", !.ret = <<>>]
        ELSE IF a.body.t = "invalid"
        THEN [asked EXCEPT !.at = "returned", !.ret = <<>>]
        ELSE IF a.body.t # "object"
        THEN [asked EXCEPT !.at = "raised"]
        ELSE IF batch.t # "list"
        THEN [asked EXCEPT !.at = "raised"]
        ELSE IF Truthy(next)
        THEN [asked EXCEPT !.events = @ \o batch.v, !.next_path = next]
        ELSE [asked EXCEPT !.events = @ \o batch.v, !.next_path = next,
                           !.at = "returned", !.ret = e.events \o batch.v]

InitFeed ==
    /\ srv = <<>>
    /\ edits = 0
    /\ cfg \in [dry_run : {FALSE}, force : {FALSE}, limit : {0}, normalize_summary : {TRUE}]
    /\ pc = "feed"
    /\ items = <<>>
    /\ etag = <<>>
    /\ payload = <<>>
    /\ base = 0
    /\ stats = ZeroStats
    /\ rec = <<>>
    /\ lost = FALSE
    /\ discovery = "pending"
    /\ resp = NoResponse
    /\ eng = [calls |-> 0, events |-> <<>>, next_path |-> JNull, trace |-> <<>>,
              at |-> "loop", ret |-> <<>>]

\* one pass of the while loop of fetch_all_events; a nextUrl that is not a
\* text has no lstrip, which ends the call before the request
FetchPage ==
    /\ pc = "feed"
    /\ eng.at = "loop"
    /\ IF Truthy(eng.next_path) /\ eng.next_path.t # "str"
       THEN eng' = [eng EXCEPT !.at = "raised"]
       ELSE /\ eng.calls < MaxPages
            /\ \E a \in FeedAnswers : eng' = FeedPass(eng, a)
    /\ UNCHANGED <<srv, edits, cfg, pc, items, etag, payload, base, stats, rec, lost,
                   discovery, resp>>

SpecFeed == InitFeed /\ [][FetchPage]_vars

(* ------------------------------- C31 ----------------------------------- *)
\* the request of a page failed, or its body is not JSON
PageFailed(p) == p.answer.status # 200 \/ p.answer.body.t = "invalid"

\* the page names a next page
HasNextUrl(p) ==
    /\ ~PageFailed(p)
    /\ p.answer.body.t = "object"
    /\ p.answer.body.nextUrl.t \in {"str", "num"}
    /\ p.answer.body.nextUrl.v \notin {<<>>, <<"0">>}

\* the data of a page, empty where the page has none
PageData(p) ==
    IF ~PageFailed(p) /\ p.answer.body.t = "object" /\ p.answer.body.data.t = "list"
    THEN p.answer.body.data.v ELSE <<>>

\* the data of the pages one after the other
RECURSIVE AllData(_)
AllData(pages) == IF pages = <<>> THEN <<>> ELSE PageData(Head(pages)) \o AllData(Tail(pages))

\* where a nextUrl leads: itself if it is a URL, the API root followed by it,
\* leading slashes dropped, otherwise
RECURSIVE NextUrlTarget(_)
NextUrlTarget(text) ==
    IF text = <<>> THEN <<"https://api.v2.citiesapps.com/">>
    ELSE IF Head(text) = "/" THEN NextUrlTarget(Tail(text))
    ELSE IF Head(text) = "https://api.v2.citiesapps.com/" THEN text
    ELSE <<"https://api.v2.citiesapps.com/">> \o text

\* every page is a JSON object whose data, if any, is a list and whose
\* nextUrl, if any, is a text or null
WellFormedPages ==
    \A i \in 1..Len(eng.trace) :
        LET p == eng.trace[i]
        IN  PageFailed(p) \/
            /\ p.answer.body.t = "object"
            /\ p.answer.body.data.t \in {"absent", "list"}
            /\ p.answer.body.nextUrl.t \in {"absent", "null", "str"}

\* the pages were asked for one after the other, the first with the query
\* parameters, each later one at the nextUrl of the page before it
FollowsNextUrl ==
    \A i \in 1..Len(eng.trace) :
        IF i = 1 THEN eng.trace[i].request = [url |-> calendar_url, params |-> TRUE]
        ELSE /\ HasNextUrl(eng.trace[i - 1])
             /\ eng.trace[i].request =
                    [url |-> NextUrlTarget(eng.trace[i - 1].answer.body.nextUrl.v),
                     params |-> FALSE]

\* the call ended exactly when the last page failed or names no next page,
\* with nothing if a page failed and with the data of all pages otherwise
EndsAllOrNothing ==
    LET n == Len(eng.trace)
        over == n > 0 /\ (PageFailed(eng.trace[n]) \/ ~HasNextUrl(eng.trace[n]))
    IN  /\ eng.at = "returned" <=> over
        /\ eng.at = "returned" =>
              eng.ret = (IF \E i \in 1..n : PageFailed(eng.trace[i])
                         THEN <<>> ELSE AllData(eng.trace))

\* C31: fetch_all_events is all-or-nothing.  It asks for page after page along
\* nextUrl and, once a page has no nextUrl, returns the data of every page in
\* page order; if a request failed or a body is not JSON it returns the empty
\* list; it ends in no other way, a raised exception included.
C31_AllOrNothing ==
    /\ eng.at # "raised"
    /\ FollowsNextUrl
    /\ EndsAllOrNothing

\* the same for answers of the expected shape only
AllOrNothingOnWellFormedPages == WellFormedPages => C31_AllOrNothing

\* two pages were joined in page order
TwoPagesJoined ==
    /\ eng.at = "returned" /\ Len(eng.trace) = 2
    /\ eng.ret = <<"e3", "e2", "e1">>

\* the second page failed and the data of the first was dropped
FirstPageDropped ==
    /\ eng.at = "returned" /\ Len(eng.trace) = 2
    /\ PageData(eng.trace[1]) # <<>> /\ PageFailed(eng.trace[2])
    /\ eng.ret = <<>>

(* ----------- fetch_json (src/waste_fetch_json.py) on its own ------------ *)
\* dict.update: the entries of extra replace and extend those of h
DictUpdate(h, extra) ==
    [k \in DOMAIN h \cup DOMAIN extra |-> IF k \in DOMAIN extra THEN extra[k] ELSE h[k]]

\* browsery_headers: the browser-like headers, updated by extra if extra is
\* neither None nor empty (both are the function without entries here)
browsery_headers(extra) ==
    LET h == [k \in {"Accept", "Accept-Language", "User-Agent", "Origin", "Referer",
                     "Cache-Control", "Pragma"} |->
                 CASE k = "Accept" -> "application/json, text/plain, */*"
                   [] k = "Accept-Language" -> "de-AT,de;q=0.9,en;q=0.8"
                   [] k = "User-Agent" -> "Mozilla/5.0"
                   [] k \in {"Origin", "Referer"} -> "https://bad-fischau-brunn.at"
                   [] OTHER -> "no-cache"]
    IN  IF DOMAIN extra # {} THEN DictUpdate(h, extra) ELSE h

\* the extra headers of the second GET
RetryHeaders ==
    [k \in {"X-Requested-With", "Upgrade-Insecure-Requests"} |->
        IF k = "X-Requested-With" THEN "XMLHttpRequest" ELSE "1"]

\* urlencode of a dict given as its (key, value) pairs in order
RECURSIVE urlencode(_)
urlencode(pairs) ==
    IF pairs = <<>> THEN <<>>
    ELSE <<Head(pairs)[1] \o "=" \o Head(pairs)[2]>>
         \o (IF Len(pairs) > 1 THEN <<"&">> ELSE <<>>) \o urlencode(Tail(pairs))

\* lines 80-83: the URL both GETs go to
full_url(url, params) ==
    IF params # <<>>
    THEN url \o <<(IF \E i \in 1..Len(url) : url[i] = "?" THEN "&" ELSE "?")>>
             \o urlencode(params)
    ELSE url

\* the arguments of a call: url, params (None or empty as <<>>), headers
WasteUrls ==
    { <<"https://api.v2.citiesapps.com/", "waste-management/areas/a1/calendar">>,
      <<"https://api.v2.citiesapps.com/", "waste-management/areas/a1/calendar", "?", "lang=de">> }

WasteParams == { <<>>, << <<"from", "2025-01-01">>, <<"to", "2025-12-31">> >> }

WasteHeaders ==
    { <<>>, [k \in {"Accept"} |-> "text/csv"], [k \in {"Authorization"} |-> "Bearer t"] }

\* what a GET meets: no answer (status 0: requests.get raises), or a response
\* with a status and a body that is a JSON document or is not JSON
WasteAnswer(status, json, doc) == [status |-> status, json |-> json, doc |-> doc]

WasteAnswers ==
    { WasteAnswer(0, FALSE, "") }
    \cup { WasteAnswer(s, FALSE, "<html>") : s \in {200, 403, 500} }
    \cup { WasteAnswer(s, TRUE, d) : s \in {200, 403}, d \in {"calendar A", "calendar B"} }

\* what a call ends with: the returned document or the exception raised
WasteOutcome(kind, status, doc) == [kind |-> kind, status |-> status, doc |-> doc]

\* lines 90-91 on the response r: raise_for_status, then r.json()
ReadJson(r) ==
    IF r.status >= 400 THEN WasteOutcome("HTTPError", r.status, "")
    ELSE IF ~r.json THEN WasteOutcome("JSONDecodeError", r.status, "")
    ELSE WasteOutcome("return", r.status, r.doc)

\* line 86 with every error status in the place of 403
ShouldRetry_AnyError(r) == r.status >= 400

\* line 86: the condition of the second GET
ShouldRetry(r) == r.status = 403

InitFetch ==
    /\ srv = <<>>
    /\ edits = 0
    /\ cfg \in [dry_run : {FALSE}, force : {FALSE}, limit : {0}, normalize_summary : {TRUE}]
    /\ pc = "fetch"
    /\ items = <<>>
    /\ etag = <<>>
    /\ payload = <<>>
    /\ base = 0
    /\ stats = ZeroStats
    /\ rec = <<>>
    /\ lost = FALSE
    /\ discovery = "pending"
    /\ resp = NoResponse
    /\ \E u \in WasteUrls, p \in WasteParams, h \in WasteHeaders :
         eng = [calls |-> 0, url |-> u, params |-> p, headers |-> h, gets |-> <<>>,
                at |-> "get", out |-> WasteOutcome("none", 0, "")]

\* lines 80-86 and, unless the status is 403, lines 90-91: the first GET
FetchJsonGet ==
    /\ pc = "fetch"
    /\ eng.at = "get"
    /\ \E r \in WasteAnswers :
         LET sent == [url |-> full_url(eng.url, eng.params),
                      headers |-> browsery_headers(eng.headers), answer |-> r]
             asked == [eng EXCEPT !.calls = @ + 1, !.gets = Append(@, sent)]
         IN  eng' = IF r.status = 0
                    THEN [asked EXCEPT !.at = "done",
                                       !.out = WasteOutcome("RequestException", 0, "")]
                    ELSE IF ShouldRetry(r) THEN [asked EXCEPT !.at = "retry"]
                    ELSE [asked EXCEPT !.at = "done", !.out = ReadJson(r)]
    /\ UNCHANGED <<srv, edits, cfg, pc, items, etag, payload, base, stats, rec, lost,
                   discovery, resp>>

\* lines 88-91: the second GET, with the other header profile
FetchJsonRetry ==
    /\ pc = "fetch"
    /\ eng.at = "retry"
    /\ \E r \in WasteAnswers :
         LET sent == [url |-> full_url(eng.url, eng.params),
                      headers |-> browsery_headers(RetryHeaders), answer |-> r]
             asked == [eng EXCEPT !.calls = @ + 1, !.gets = Append(@, sent), !.at = "done"]
         IN  eng' = IF r.status = 0
                    THEN [asked EXCEPT !.out = WasteOutcome("RequestException", 0, "")]
                    ELSE [asked EXCEPT !.out = ReadJson(r)]
    /\ UNCHANGED <<srv, edits, cfg, pc, items, etag, payload, base, stats, rec, lost,
                   discovery, resp>>

NextFetch == FetchJsonGet \/ FetchJsonRetry

SpecFetch == InitFetch /\ [][NextFetch]_vars

(* ------------------------------- C32 ----------------------------------- *)
\* what a response stands for: an HTTP error for an error status, the JSON
\* document of the body otherwise, a decode error if the body is not JSON
ResultOf(r) ==
    IF r.status \in 400..599 THEN [kind |-> "HTTPError", status |-> r.status, doc |-> ""]
    ELSE IF r.json THEN [kind |-> "return", status |-> r.status, doc |-> r.doc]
    ELSE [kind |-> "JSONDecodeError", status |-> r.status, doc |-> ""]

\* the GETs of the call that were answered
Answered ==
    LET HasResponse(g) == g.answer.status # 0
    IN  SelectSeq(eng.gets, HasResponse)

\* at most two GETs to the same URL; a second one exactly when the first
\* response has status 403, and then with the alternate header profile
RetriesOnceOn403 ==
    /\ Len(eng.gets) <= 2
    /\ eng.at = "retry" => Len(eng.gets) = 1
    /\ eng.at \in {"retry", "done"} =>
          ((eng.at = "retry" \/ Len(eng.gets) = 2) <=> eng.gets[1].answer.status = 403)
    /\ Len(eng.gets) = 2 =>
          /\ eng.gets[2].url = eng.gets[1].url
          /\ "X-Requested-With" \in DOMAIN eng.gets[2].headers
          /\ "X-Requested-With" \notin DOMAIN eng.gets[1].headers

\* C32 as stated: fetch_json retries at most once and only on status 403, and
\* what it returns or raises is determined by the last response it received.
C32_LastResponseDecides ==
    /\ RetriesOnceOn403
    /\ eng.at = "done" =>
          /\ Answered # <<>>
          /\ eng.out = ResultOf(Answered[Len(Answered)].answer)

\* C32, amended: fetch_json retries at most once and only on status 403, and
\* what it returns or raises is determined by its last GET: by the response if
\* that GET was answered, and the error of the request itself if it was not.
C32_LastGetDecides ==
    /\ RetriesOnceOn403
    /\ eng.at = "done" =>
          LET last == eng.gets[Len(eng.gets)].answer
          IN  eng.out = (IF last.status = 0
                         THEN [kind |-> "RequestException", status |-> 0, doc |-> ""]
                         ELSE ResultOf(last))

\* a first response 403 with one document, a second GET without the caller's
\* header answered 200 with another document, which is what the call returns
C32_Witness ==
    /\ eng.at = "done"
    /\ Len(eng.gets) = 2
    /\ DOMAIN eng.headers = {"Authorization"}
    /\ eng.gets[1].answer = [status |-> 403, json |-> TRUE, doc |-> "calendar A"]
    /\ eng.gets[2].answer = [status |-> 200, json |-> TRUE, doc |-> "calendar B"]
    /\ eng.out = [kind |-> "return", status |-> 200, doc |-> "calendar B"]

=============================================================================
